---- MODULE Spec2Model ----
(***************************************************************************)
(* odbcnotebook: a JSON-RPC 2.0 front end (odbcnotebook/jsonrpc.py) over a *)
(* one-query-at-a-time ODBC session (odbcnotebook/odbc.py).                *)
(*                                                                         *)
(* One HTTP POST is one step: the handler decodes the body, runs every     *)
(* request of it against the RPC object in order and writes one answer.    *)
(* The RPC object is its instance __dict__, the attributes in the order    *)
(* they were first set, since getattr(rpc, name) opens every name of the   *)
(* object to the client.  The ODBC driver is modelled by what the code     *)
(* reads of it: a connection that hands out cursors, and a cursor with a   *)
(* statement, a description, a row count and a position in its rows.       *)
(***************************************************************************)
EXTENDS Integers, Sequences, FiniteSets, TLC

(***************************************************************************)
(* Bounds of the model.                                                    *)
(***************************************************************************)
\* rows of the largest result set of the driver
NumRows == 3
\* requests in one batch body
MaxBatch == 2
\* shutdown threads started and not yet run
MaxThreads == 2
\* requests that rebind an attribute of the RPC object by a name that is
\* none of execute and finish
MaxRebinds == 1

(***************************************************************************)
(* JSON values, as json.loads hands them to the handler.  A number is kept *)
(* as the fraction n/d, so that 1.5 is a value different from 1 and 2: an  *)
(* int has the denominator 1 and a float a denominator of 2 or more (2.0   *)
(* is 4/2).  A bool is the int 1 or 0.  Of a list and of an object, n is   *)
(* the number of elements and items are the elements: the values of a      *)
(* list, the members (name and value, in the order of the text) of an      *)
(* object.                                                                 *)
(***************************************************************************)
JNull == [t |-> "null", n |-> 0, d |-> 1, s |-> ""]
JNum(n, d) == [t |-> "num", n |-> n, d |-> d, s |-> ""]
JInt(n) == JNum(n, 1)
JStr(s) == [t |-> "str", n |-> 0, d |-> 1, s |-> s]
JTrue == [t |-> "bool", n |-> 1, d |-> 1, s |-> ""]
JFalse == [t |-> "bool", n |-> 0, d |-> 1, s |-> ""]
JArray(items) == [t |-> "list", n |-> Len(items), d |-> 1, s |-> "", items |-> items]
JObject(items) == [t |-> "dict", n |-> Len(items), d |-> 1, s |-> "", items |-> items]
\* the empty list and the empty object
JList == JArray(<<>>)
JDict == JObject(<<>>)
\* a key that is absent from a JSON object
Absent == [t |-> "absent", n |-> 0, d |-> 1, s |-> ""]

\* Python objects that are not JSON values
None == JNull
\* the pyodbc connection made by run_server
Odbc == [t |-> "odbc", n |-> 0, d |-> 1, s |-> ""]
\* the closure run_server hands to set_shutdown
ShutdownFn == [t |-> "function", n |-> 0, d |-> 1, s |-> "shutdown"]

\* dict.get(key, default)
Get(v, default) == IF v = Absent THEN default ELSE v

\* not value: None, False, a number that is zero, an empty string, list or dict
Falsy(v) ==
  \/ v.t = "null"
  \/ v.t \in {"num", "bool"} /\ v.n = 0
  \/ v.t = "str" /\ v.s = ""
  \/ v.t \in {"list", "dict"} /\ v.n = 0

(***************************************************************************)
(* A Python dict: its items in insertion order.  Setting a key that is     *)
(* there keeps its place, a new key goes to the end.                       *)
(***************************************************************************)
Member(name, value) == [name |-> name, value |-> value]

\* the keys of the dict
Keys(d) == {d[i].name : i \in DOMAIN d}

\* the place of a key of the dict
Index(d, name) == CHOOSE i \in DOMAIN d : d[i].name = name

\* d[name]
Item(d, name) == d[Index(d, name)].value

\* d[name] = value
SetItem(d, name, value) ==
  IF name \in Keys(d) THEN [d EXCEPT ![Index(d, name)] = Member(name, value)]
  ELSE Append(d, Member(name, value))

\* del d[name]
DelItem(d, name) ==
  SubSeq(d, 1, Index(d, name) - 1) \o SubSeq(d, Index(d, name) + 1, Len(d))

(***************************************************************************)
(* The ODBC driver, as far as the code reads it.  The statements stand for *)
(* the kinds of SQL the driver tells apart: a query with rows, a query     *)
(* with none, a statement with no result description, and a statement the  *)
(* driver rejects.                                                         *)
(***************************************************************************)
Statements == {"select", "empty", "update", "bad"}

\* a decimal digit
Digit(n) ==
  CASE n = 0 -> "0" [] n = 1 -> "1" [] n = 2 -> "2" [] n = 3 -> "3" [] n = 4 -> "4"
    [] n = 5 -> "5" [] n = 6 -> "6" [] n = 7 -> "7" [] n = 8 -> "8" [] n = 9 -> "9"

\* str(n) of an int
RECURSIVE DecStr(_)
DecStr(n) ==
  IF n < 0 THEN "-" \o DecStr(0 - n)
  ELSE IF n < 10 THEN Digit(n)
  ELSE DecStr(n \div 10) \o Digit(n % 10)

\* the denominators of the floats of the model: halves, quarters, eighths
\* and sixteenths.  The decimal expansion of such a float ends after four
\* digits at most, and float.__repr__, the shortest text that reads back as
\* the same float, is that expansion.  (Of a float like 1/3 or 1e-05 the
\* text is not its expansion; these are no values of the model.)
Dyadic == {2, 4, 8, 16}

\* the digits after the point of r/d, for 0 <= r < d and a dyadic d, by long
\* division
RECURSIVE FractionStr(_, _)
FractionStr(r, d) ==
  LET q == (r * 10) \div d
      r2 == (r * 10) % d
  IN IF r2 = 0 THEN Digit(q) ELSE Digit(q) \o FractionStr(r2, d)

\* str(x) of a float n/d
FloatStr(n, d) ==
  CASE d \in Dyadic /\ n < 0 -> "-" \o DecStr((0 - n) \div d) \o "." \o FractionStr((0 - n) % d, d)
    [] d \in Dyadic /\ n >= 0 -> DecStr(n \div d) \o "." \o FractionStr(n % d, d)

\* str(value) of a column value
Str(v) ==
  CASE v.t = "null" -> "None"
    [] v.t = "bool" -> IF v.n = 0 THEN "False" ELSE "True"
    [] v.t = "num" -> IF v.d = 1 THEN DecStr(v.n) ELSE FloatStr(v.n, v.d)
    [] v.t = "str" -> v.s

\* cursor.description after cursor.execute(sql): (name, type_code, ...) per column
Description(sql) ==
  CASE sql = "select" -> <<[name |-> "id", type_code |-> "class int"],
                           [name |-> "name", type_code |-> "class str"]>>
    [] sql = "empty" -> <<[name |-> "id", type_code |-> "class int"]>>
    [] OTHER -> <<>>

\* cursor.description is None: the statement returns no rows
HasDescription(sql) == sql \in {"select", "empty"}

\* cursor.description after cursor.execute(sql), as the cursor holds it
Described(sql) ==
  IF HasDescription(sql) THEN [t |-> "description", columns |-> Description(sql)] ELSE None

\* type.__name__: a type code is written "class " and the name of the class
TypeName(type_code) == SubSeq(type_code, Len("class ") + 1, Len(type_code))

\* the rows of the statement, in driver order
Rows(sql) ==
  IF sql = "select"
  THEN [i \in 1..NumRows |-> <<JInt(i), IF i % 2 = 1 THEN JStr("odd") ELSE JNull>>]
  ELSE <<>>

\* cursor.rowcount
Rowcount(sql) == IF sql = "update" THEN 2 ELSE 0 - 1

\* cursor.tables(): (catalog, schema, table, kind, remarks)
TableListing ==
  <<[catalog |-> JNull, schema |-> JStr("dbo"), table |-> "Orders", kind |-> "TABLE"],
    [catalog |-> JStr("main"), schema |-> JNull, table |-> "OpenOrders", kind |-> "VIEW"],
    [catalog |-> JStr("main"), schema |-> JStr("sys"), table |-> "Types", kind |-> "SYSTEM TABLE"]>>

\* cursor.columns(table, catalog, schema, None):
\* (catalog, schema, table, column, data type, type name, ...)
ColumnListing ==
  <<[catalog |-> JNull, schema |-> JStr("dbo"), table |-> "Orders", column |-> "id", datatype |-> "integer"],
    [catalog |-> JStr("main"), schema |-> JNull, table |-> "Orders", column |-> "total", datatype |-> "decimal"],
    [catalog |-> JStr("main"), schema |-> JNull, table |-> "OpenOrders", column |-> "id", datatype |-> "integer"]>>

(***************************************************************************)
(* The characters of the strings of the model: the printable characters of *)
(* ISO 8859-1 (without the grave accent, which a string of this module     *)
(* cannot hold).  str.lower() maps each character of Cased to the          *)
(* character at its place in Lowered and leaves those of Caseless.         *)
(***************************************************************************)
Caseless ==
  " !\"#$%&'()*+,-./0123456789:;<=>?@[\\]^_abcdefghijklmnopqrstuvwxyz{|}~¡¢£¤¥¦§¨©ª«¬®¯°±²³´µ¶·¸¹º»¼½¾¿×ßàáâãäåæçèéêëìíîïðñòóôõö÷øùúûüýþÿ"

Cased ==
  "ABCDEFGHIJKLMNOPQRSTUVWXYZÀÁÂÃÄÅÆÇÈÉÊËÌÍÎÏÐÑÒÓÔÕÖØÙÚÛÜÝÞ"

Lowered ==
  "abcdefghijklmnopqrstuvwxyzàáâãäåæçèéêëìíîïðñòóôõöøùúûüýþ"

\* the characters of a string
Chars(k) == {SubSeq(k, i, i) : i \in 1..Len(k)}

\* str.lower() of one character
LowerChar(c) ==
  CASE c \in Chars(Caseless) -> c
    [] c \in Chars(Cased) ->
         SubSeq(Lowered, CHOOSE i \in 1..Len(Cased) : SubSeq(Cased, i, i) = c,
                         CHOOSE i \in 1..Len(Cased) : SubSeq(Cased, i, i) = c)

\* str.lower()
RECURSIVE Lower(_)
Lower(k) == IF k = "" THEN "" ELSE LowerChar(Head(k)) \o Lower(Tail(k))

\* an open cursor of the connection: the statement it ran ("" before any),
\* the number of its rows already fetched, and its description, an attribute
\* the driver sets when the statement runs and is free to change afterwards
NewCursor == [sql |-> "", pos |-> 0, description |-> None]

(***************************************************************************)
(* What a call leaves behind: the session after it, the exception it       *)
(* raised ("" when it returned) with its message, and the value returned.  *)
(* A session is the RPC object (rpc, its instance __dict__), the driver's  *)
(* side of it (conn_open, cursors, link), the number of threads the        *)
(* shutdown closure has started since the handler began (started), and     *)
(* whether class RPC has a __slotnames__ (slotnames).  What a call raised  *)
(* may hold a cursor (held, its place among the cursors; 0 for none).      *)
(***************************************************************************)
Return(s, result) == [s |-> s, exc |-> "", msg |-> "", result |-> result, held |-> 0]
Raise(s, exc, msg) ==
  [s |-> s, exc |-> exc, msg |-> msg, result |-> [t |-> "none"], held |-> 0]

\* the exception left a frame whose local variable is the only reference to
\* cursor c: no line of the method closes the cursor, which stays open for
\* as long as the traceback of the exception keeps the frame
Holding(raised, c) == [raised EXCEPT !.held = c]

\* values the calls return
RTrue == [t |-> "bool", v |-> TRUE]
RNone == [t |-> "null"]
RInt(n) == [t |-> "int", v |-> n]
RStr(str) == [t |-> "str", v |-> str]
RList(l) == [t |-> "list", v |-> l]
\* the value of an attribute, handed out as it is
RValue(v) == [t |-> "value", v |-> v]
\* an object of a type json.dumps has no encoding for
RObject(type) == [t |-> "object", v |-> type]

\* the instance has the attribute
HasAttr(s, name) == name \in Keys(s.rpc)

\* self.name, of an attribute the instance has
Self(s, name) == Item(s.rpc, name)

\* self.name of an instance that has no such attribute
NoAttribute(s, name) ==
  Raise(s, "AttributeError", "'RPC' object has no attribute '" \o name \o "'")

\* connection.cursor(): a new cursor of the connection
CanOpenCursor(s) ==
  HasAttr(s, "connection") /\ Self(s, "connection") = Odbc /\ s.conn_open

OpenCursorError(s) ==
  IF ~HasAttr(s, "connection") THEN NoAttribute(s, "connection")
  ELSE IF Self(s, "connection") # Odbc
  THEN Raise(s, "AttributeError", "object has no attribute 'cursor'")
  ELSE Raise(s, "pyodbc.Error", "Attempt to use a closed connection.")

WithNewCursor(s) == [s EXCEPT !.cursors = Append(@, NewCursor)]

\* the link between the driver and the database server: the number of
\* driver calls it still carries before it goes down, or Stable while
\* nothing takes it down.  The driver calls that need the database server
\* are execute, tables and columns of a cursor, the fetch of a row, the
\* close of a cursor and the end of the `with` block of a cursor.
Stable == 0 - 1

\* the link carries n more driver calls
Carries(s, n) == s.link = Stable \/ s.link >= n

\* a driver call that needs the database server raises pyodbc.Error once the
\* link is down
DriverFails(s) == ~Carries(s, 1)

\* the session after n driver calls, or after those of them the link carried
AfterDriverCalls(s, n) ==
  IF s.link = Stable THEN s ELSE [s EXCEPT !.link = IF @ >= n THEN @ - n ELSE 0]

DriverError(s) == Raise(s, "pyodbc.Error", "Communication link failure")

\* the connection no longer has the cursor: after cursor.close(), and after
\* the last reference to the cursor is dropped (the local variable of a call
\* that has returned, the traceback of an exception that has been handled,
\* the Paging Context the object no longer holds), when CPython finalizes
\* the cursor
WithoutCursor(s, c) ==
  [s EXCEPT !.cursors = SubSeq(@, 1, c - 1) \o SubSeq(@, c + 1, Len(@))]

\* the Paging Contexts among the values of a dict
Contexts(d) == {d[i].value : i \in {j \in DOMAIN d : d[j].value.t = "PagingContext"}}

\* the instance __dict__ becomes d.  A Paging Context that was a value of it
\* and is none of d has lost its last reference: it is finalized, and its
\* cursor with it.
WithDict(s, d) ==
  IF Contexts(s.rpc) \ Contexts(d) = {} THEN [s EXCEPT !.rpc = d]
  ELSE [WithoutCursor(s, (CHOOSE pc \in Contexts(s.rpc) \ Contexts(d) : TRUE).cursor)
          EXCEPT !.rpc = d]

\* self.name = value
Assign(s, name, value) == WithDict(s, SetItem(s.rpc, name, value))

\* the session once the exception a call raised has been let go: the frames
\* of its traceback go with it, and a cursor that only a local variable of
\* theirs referred to is finalized
LetGo(out) ==
  IF out.held # 0 /\ \A pc \in Contexts(out.s.rpc) : pc.cursor # out.held
  THEN WithoutCursor(out.s, out.held)
  ELSE out.s

(***************************************************************************)
(* odbc.py: PagingContext.  cursor is the place of its cursor among the    *)
(* open cursors of the connection.                                         *)
(***************************************************************************)
\* the list PagingContext.__init__ makes of a description
Descriptors(description) ==
  [i \in DOMAIN description |-> <<description[i].name, TypeName(description[i].type_code)>>]

\* PagingContext.__init__: the cache is built from cursor.description as it
\* is when the Paging Context is made (the caller has checked that there is
\* one)
PagingContext_init(s, c) ==
  [t |-> "PagingContext", cursor |-> c,
   metadata_cache |-> Descriptors(s.cursors[c].description.columns)]

\* PagingContext.metadata that reads cursor.description anew at every call
PagingContext_metadata_uncached(s) ==
  LET description == s.cursors[Self(s, "page_context").cursor].description
  IN IF description = None THEN <<>> ELSE Descriptors(description.columns)

\* PagingContext.metadata
PagingContext_metadata(s) == Self(s, "page_context").metadata_cache

\* PagingContext.count
PagingContext_count(s) == Rowcount(s.cursors[Self(s, "page_context").cursor].sql)

\* the dict built from zip(columns, row): a later column of the same name
\* replaces an earlier one
NamedRow(columns, row) ==
  LET n == IF Len(columns) < Len(row) THEN Len(columns) ELSE Len(row)
      last(c) == CHOOSE i \in 1..n : columns[i] = c /\ \A j \in 1..n : columns[j] = c => j <= i
  IN [c \in {columns[i] : i \in 1..n} |-> Str(row[last(c)])]

\* a value is a Python number (bool is a subclass of int)
IsNumber(v) == v.t \in {"num", "bool"}

\* len(page) == max, for any value of max
LenEquals(n, max) == IsNumber(max) /\ n * max.d = max.n

\* the for loop of PagingContext.page over the rows that are left: every
\* iteration asks the driver for the next row, and the driver raises if the
\* link is down by then
RECURSIVE PageLoop(_, _, _, _, _)
PageLoop(s, rows, columns, page, max) ==
  LET c == Self(s, "page_context").cursor
      pos == s.cursors[c].pos
      fetched == AfterDriverCalls(s, 1)
      page2 == Append(page, NamedRow(columns, rows[pos + 1]))
      s2 == [fetched EXCEPT !.cursors[c].pos = pos + 1]
  IN IF DriverFails(s) THEN DriverError(s)
     ELSE IF pos >= Len(rows) THEN Return(fetched, RList(page))
     ELSE IF LenEquals(Len(page2), max) THEN Return(s2, RList(page2))
     ELSE PageLoop(s2, rows, columns, page2, max)

\* PagingContext.page
PagingContext_page(s, max) ==
  LET pc == Self(s, "page_context")
      columns == [i \in DOMAIN pc.metadata_cache |-> pc.metadata_cache[i][1]]
  IN PageLoop(s, Rows(s.cursors[pc.cursor].sql), columns, <<>>, max)

\* PagingContext.finish
PagingContext_finish(s) == WithoutCursor(s, Self(s, "page_context").cursor)

(***************************************************************************)
(* odbc.py: RPC.  A method reads self.connection, self.page_context and    *)
(* self.shutdown_fn from the instance __dict__, which a client can change  *)
(* (__init__, set_shutdown, __setattr__, __delattr__): the read of an      *)
(* attribute that is gone raises AttributeError, and a page_context that   *)
(* is neither None nor a Paging Context is a JSON value, which has none of *)
(* the methods of one.                                                     *)
(***************************************************************************)
\* RPC.__init__, also reachable as a method of the object
RPC_init(s, connection) ==
  Return(Assign(Assign(Assign(s, "connection", connection), "page_context", None),
                "shutdown_fn", None), RNone)

\* RPC.set_shutdown
RPC_set_shutdown(s, fn) == Return(Assign(s, "shutdown_fn", fn), RNone)

\* catalog or '', for a value of the driver
OrEmpty(v) == IF Falsy(v) THEN JStr("") ELSE v

\* catalog or None, for an argument of the call
OrNone(v) == IF Falsy(v) THEN None ELSE v

\* the rows of a listing that pass the test, mapped
SelectRows(rows, Keep(_), Map(_)) ==
  LET kept == SelectSeq(rows, Keep)
  IN [i \in DOMAIN kept |-> Map(kept[i])]

\* the driver calls of a listing of n rows: the listing, the fetch of each
\* row and the one that finds no more, and the end of the `with` block
ListingCalls(n) == n + 3

\* RPC._table_like that leaves its cursor open when it returns
RPC_table_like_leaky(s, target_kind) ==
  IF ~CanOpenCursor(s) THEN OpenCursorError(s)
  ELSE LET s1 == WithNewCursor(s)
           c == Len(s1.cursors)
           calls == ListingCalls(Len(TableListing))
           keep(r) == Lower(r.kind) = Lower(target_kind.s)
           map(r) == [catalog |-> OrEmpty(r.catalog), schema |-> OrEmpty(r.schema),
                      table |-> r.table]
       IN IF ~Carries(s, 2) THEN Holding(DriverError(AfterDriverCalls(s1, 2)), c)
          ELSE IF TableListing # <<>> /\ target_kind.t # "str"
          THEN Holding(Raise(AfterDriverCalls(s1, 2), "AttributeError",
                             "object has no attribute 'lower'"), c)
          ELSE IF ~Carries(s, calls) THEN Holding(DriverError(AfterDriverCalls(s1, calls)), c)
          ELSE Return(AfterDriverCalls(s1, calls), RList(SelectRows(TableListing, keep, map)))

\* RPC._table_like: its cursor is a local variable of the call, gone with
\* the frame when the call returns, and held by the traceback when the call
\* raises.  The test of the kind is made on the first row, after the
\* listing and one fetch.
RPC_table_like(s, target_kind) ==
  IF ~CanOpenCursor(s) THEN OpenCursorError(s)
  ELSE LET s1 == WithNewCursor(s)
           c == Len(s1.cursors)
           calls == ListingCalls(Len(TableListing))
           keep(r) == Lower(r.kind) = Lower(target_kind.s)
           map(r) == [catalog |-> OrEmpty(r.catalog), schema |-> OrEmpty(r.schema),
                      table |-> r.table]
       IN IF ~Carries(s, 2) THEN Holding(DriverError(AfterDriverCalls(s1, 2)), c)
          ELSE IF TableListing # <<>> /\ target_kind.t # "str"
          THEN Holding(Raise(AfterDriverCalls(s1, 2), "AttributeError",
                             "object has no attribute 'lower'"), c)
          ELSE IF ~Carries(s, calls) THEN Holding(DriverError(AfterDriverCalls(s1, calls)), c)
          ELSE Return(WithoutCursor(AfterDriverCalls(s1, calls), c),
                      RList(SelectRows(TableListing, keep, map)))

\* self._table_like(kind): the method of the class, unless the instance has
\* an attribute of that name, and no value an attribute can hold takes the
\* call
Self_table_like(s, kind) ==
  IF HasAttr(s, "_table_like") THEN Raise(s, "TypeError", "object is not callable")
  ELSE RPC_table_like(s, kind)

\* RPC.tables
RPC_tables(s) == Self_table_like(s, JStr("table"))

\* RPC.views
RPC_views(s) == Self_table_like(s, JStr("view"))

\* the driver's filter of cursor.columns: None matches everything
Matches(filter, v) == filter = None \/ filter = v

\* RPC.columns: its cursor is a local variable of the call, as in
\* _table_like.  The driver takes a string or None for each of the three
\* filters, and sees the catalog and the schema after `or None`.
RPC_columns(s, catalog, schema, table) ==
  IF ~CanOpenCursor(s) THEN OpenCursorError(s)
  ELSE LET s1 == WithNewCursor(s)
           c == Len(s1.cursors)
           keep(r) == /\ Matches(table, JStr(r.table))
                      /\ Matches(OrNone(catalog), r.catalog)
                      /\ Matches(OrNone(schema), r.schema)
           map(r) == [catalog |-> OrEmpty(r.catalog), schema |-> OrEmpty(r.schema),
                      table |-> r.table, column |-> r.column, datatype |-> r.datatype]
           listed == SelectRows(ColumnListing, keep, map)
           calls == ListingCalls(Len(listed))
       IN IF \E a \in {OrNone(catalog), OrNone(schema), table} : a.t \notin {"str", "null"}
          THEN Holding(Raise(s1, "TypeError", "argument must be a string or None"), c)
          ELSE IF ~Carries(s, calls) THEN Holding(DriverError(AfterDriverCalls(s1, calls)), c)
          ELSE Return(WithoutCursor(AfterDriverCalls(s1, calls), c), RList(listed))

\* RPC.execute that binds the Paging Context to its cursor before the
\* statement has run
ExecuteOnNewCursor_dangling(s, sql) ==
  IF ~CanOpenCursor(s) THEN OpenCursorError(s)
  ELSE LET s1 == WithNewCursor(s)
           c == Len(s1.cursors)
           bind(x) == [x EXCEPT !.rpc = SetItem(@, "page_context",
                                                [t |-> "PagingContext", cursor |-> c,
                                                 metadata_cache |-> <<>>])]
           s2 == AfterDriverCalls([s1 EXCEPT !.cursors[c].sql = sql.s,
                                           !.cursors[c].description = Described(sql.s)], 1)
       IN IF sql.t # "str" THEN
            Holding(Raise(bind(s1), "TypeError",
                          "The first argument to execute must be a string"), c)
          ELSE IF DriverFails(s) THEN Holding(DriverError(bind(s1)), c)
          ELSE IF sql.s \notin Statements \/ sql.s = "bad" THEN
            Holding(Raise(bind(s2), "pyodbc.Error", "the driver rejected the statement"), c)
          ELSE IF s2.cursors[c].description = None THEN
            Holding(Raise(bind(s2), "TypeError", "'NoneType' object is not iterable"), c)
          ELSE Return([s2 EXCEPT !.rpc = SetItem(@, "page_context", PagingContext_init(s2, c))],
                      RTrue)

\* RPC.execute, past the check for an active query.  No line of it closes
\* the cursor it has opened: when cursor.execute or PagingContext(cursor)
\* raises, the cursor is open, with the local variable of the call as its
\* only reference.
ExecuteOnNewCursor(s, sql) ==
  IF ~CanOpenCursor(s) THEN OpenCursorError(s)
  ELSE LET s1 == WithNewCursor(s)
           c == Len(s1.cursors)
           s2 == AfterDriverCalls([s1 EXCEPT !.cursors[c].sql = sql.s,
                                           !.cursors[c].description = Described(sql.s)], 1)
       IN IF sql.t # "str" THEN
            Holding(Raise(s1, "TypeError", "The first argument to execute must be a string"),
                    c)
          ELSE IF DriverFails(s) THEN Holding(DriverError(s1), c)
          ELSE IF sql.s \notin Statements \/ sql.s = "bad" THEN
            Holding(Raise(s2, "pyodbc.Error", "the driver rejected the statement"), c)
          ELSE IF s2.cursors[c].description = None THEN
            Holding(Raise(s2, "TypeError", "'NoneType' object is not iterable"), c)
          ELSE Return([s2 EXCEPT !.rpc = SetItem(@, "page_context", PagingContext_init(s2, c))],
                      RTrue)

\* RPC.execute without its check: a second query replaces the first
RPC_execute_unchecked(s, sql) ==
  IF ~HasAttr(s, "page_context") THEN NoAttribute(s, "page_context")
  ELSE ExecuteOnNewCursor(s, sql)

\* RPC.execute
RPC_execute(s, sql) ==
  IF ~HasAttr(s, "page_context") THEN NoAttribute(s, "page_context")
  ELSE IF Self(s, "page_context") # None THEN
    Raise(s, "ValueError", "Cannot have active query when calling execute()")
  ELSE ExecuteOnNewCursor(s, sql)

\* self.page_context.name of a page_context that is a JSON value: the types
\* of JSON values have no metadata, page or finish
NoContextMethod(s, name) ==
  Raise(s, "AttributeError", "object has no attribute '" \o name \o "'")

\* RPC.metadata
RPC_metadata(s) ==
  IF ~HasAttr(s, "page_context") THEN NoAttribute(s, "page_context")
  ELSE IF Self(s, "page_context") = None THEN
    Raise(s, "ValueError", "Must have active query before calling metadata()")
  ELSE IF Self(s, "page_context").t # "PagingContext" THEN NoContextMethod(s, "metadata")
  ELSE LET metadata == PagingContext_metadata(s)
       IN Return(s, RList([i \in DOMAIN metadata |->
                     [column |-> metadata[i][1], datatype |-> metadata[i][2]]]))

\* RPC.count.  A str and a list have a count method of their own, which
\* takes an argument.
RPC_count(s) ==
  IF ~HasAttr(s, "page_context") THEN NoAttribute(s, "page_context")
  ELSE IF Self(s, "page_context") = None THEN
    Raise(s, "ValueError", "Must have active query before calling metadata()")
  ELSE IF Self(s, "page_context").t \in {"str", "list"} THEN
    Raise(s, "TypeError", "count() takes at least 1 argument (0 given)")
  ELSE IF Self(s, "page_context").t # "PagingContext" THEN NoContextMethod(s, "count")
  ELSE Return(s, RInt(PagingContext_count(s)))

\* max <= 0, for a number
NotPositive(max) == max.n <= 0

\* RPC.page
RPC_page(s, max) ==
  IF ~HasAttr(s, "page_context") THEN NoAttribute(s, "page_context")
  ELSE IF Self(s, "page_context") = None THEN
    Raise(s, "ValueError", "Must have active query before calling page()")
  ELSE IF ~IsNumber(max) THEN
    Raise(s, "TypeError", "'<=' not supported between instances")
  ELSE IF NotPositive(max) THEN
    Raise(s, "ValueError", "Page size must be a positive integer")
  ELSE IF Self(s, "page_context").t # "PagingContext" THEN NoContextMethod(s, "page")
  ELSE PagingContext_page(s, max)

\* RPC.finish that takes a second finish for done, not for an error
RPC_finish_idempotent(s) ==
  IF ~HasAttr(s, "page_context") THEN NoAttribute(s, "page_context")
  ELSE IF Self(s, "page_context") = None THEN Return(s, RTrue)
  ELSE IF Self(s, "page_context").t # "PagingContext" THEN NoContextMethod(s, "finish")
  ELSE IF DriverFails(s) THEN DriverError(s)
  ELSE Return([AfterDriverCalls(PagingContext_finish(s), 1)
                 EXCEPT !.rpc = SetItem(@, "page_context", None)], RTrue)

\* RPC.finish.  The cursor of the Paging Context is closed by the time the
\* object lets the Paging Context go.
RPC_finish(s) ==
  IF ~HasAttr(s, "page_context") THEN NoAttribute(s, "page_context")
  ELSE IF Self(s, "page_context") = None THEN
    Raise(s, "ValueError", "Must have active query before calling finish()")
  ELSE IF Self(s, "page_context").t # "PagingContext" THEN NoContextMethod(s, "finish")
  ELSE IF DriverFails(s) THEN DriverError(s)
  ELSE Return([AfterDriverCalls(PagingContext_finish(s), 1)
                 EXCEPT !.rpc = SetItem(@, "page_context", None)], RTrue)

\* calling a value with no arguments: of the values an attribute can hold
\* only the closure of run_server is callable.  It starts the thread that
\* runs server.shutdown and returns.
CallValue(s, v) ==
  IF v = ShutdownFn
  THEN Return([s EXCEPT !.started = @ + 1], RNone)
  ELSE Raise(s, "TypeError", "object is not callable")

\* RPC.quit
RPC_quit(s) ==
  IF ~HasAttr(s, "page_context") THEN NoAttribute(s, "page_context")
  ELSE IF Self(s, "page_context") # None THEN
    Raise(s, "ValueError", "Cannot have active query when calling quit()")
  ELSE IF ~HasAttr(s, "connection") THEN NoAttribute(s, "connection")
  ELSE IF Self(s, "connection") # Odbc THEN
    Raise(s, "AttributeError", "object has no attribute 'close'")
  ELSE IF ~s.conn_open THEN
    Raise(s, "pyodbc.Error", "Attempt to use a closed connection.")
  ELSE IF ~HasAttr(s, "shutdown_fn") THEN
    NoAttribute([s EXCEPT !.conn_open = FALSE], "shutdown_fn")
  ELSE LET called == CallValue([s EXCEPT !.conn_open = FALSE], Self(s, "shutdown_fn"))
       IN IF called.exc # "" THEN called ELSE Return(called.s, RTrue)

(***************************************************************************)
(* jsonrpc.py.  A request is a decoded JSON value: t is its JSON type and, *)
(* for an object, jsonrpc, id, method and params are its keys (Absent when *)
(* the key is missing).  params keeps its JSON type, its values in order   *)
(* and, for an object, its keys.                                           *)
(***************************************************************************)
PARSE_ERROR == -32700
INVALID_REQUEST == -32600
METHOD_NOT_FOUND == -32601
INVALID_PARAMS == -32602
INTERNAL_ERROR == -32603

\* RPC_ERROR_MESSAGES.get(error, default)
RPC_ERROR_MESSAGES(error, default) ==
  CASE error = PARSE_ERROR -> "Parse error"
    [] error = INVALID_REQUEST -> "Invalid Request"
    [] error = METHOD_NOT_FOUND -> "Method not found"
    [] error = INVALID_PARAMS -> "Invalid params"
    [] error = INTERNAL_ERROR -> "Internal Error"
    [] OTHER -> default

NoParams == [t |-> "absent", args |-> <<>>, keys |-> <<>>]
ListParams(args) == [t |-> "list", args |-> args, keys |-> <<>>]
DictParams(keys, args) == [t |-> "dict", args |-> args, keys |-> keys]
NullParams == [t |-> "null", args |-> <<>>, keys |-> <<>>]

Request(jsonrpc, id, method, params) ==
  [t |-> "object", jsonrpc |-> jsonrpc, id |-> id, method |-> method, params |-> params]

\* a JSON value that is not an object, where a request object is expected
NotAnObject(t) ==
  [t |-> t, jsonrpc |-> Absent, id |-> Absent, method |-> Absent, params |-> NoParams]

\* _validate_rpc_request, for a request object: the ValueError it raises, or ""
_validate_rpc_request(request) ==
  IF Get(request.jsonrpc, None) # JStr("2.0") THEN "Invalid jsonrpc: must be \"2.0\""
  ELSE IF ~(Get(request.id, None) = None \/ Get(request.id, None).t \in {"str", "num", "bool"})
    THEN "Invalid id: must be null, string or number"
  ELSE IF Get(request.method, None).t # "str" THEN "Invalid method: must be string"
  ELSE IF request.params.t \notin {"absent", "dict", "list"}
    THEN "Invalid params: must be array or object"
  ELSE ""

\* what _process_request returns when it returns None
NoResponse == [kind |-> "None", id |-> None, result |-> RNone, code |-> 0, message |-> "", data |-> ""]

\* _build_rpc_error that answers a notification like any other request
_build_rpc_error_for_any_id(id, error, exception, keep_null_id) ==
  [kind |-> "error", id |-> id, result |-> RNone, code |-> error,
   message |-> RPC_ERROR_MESSAGES(error, exception), data |-> exception]

\* _build_rpc_error
_build_rpc_error(id, error, exception, keep_null_id) ==
  IF id = None /\ ~keep_null_id THEN NoResponse
  ELSE [kind |-> "error", id |-> id, result |-> RNone, code |-> error,
        message |-> RPC_ERROR_MESSAGES(error, exception), data |-> exception]

\* _build_rpc_result
_build_rpc_result(id, result) ==
  IF id = None THEN NoResponse
  ELSE [kind |-> "result", id |-> id, result |-> result, code |-> 0, message |-> "",
        data |-> ""]

(***************************************************************************)
(* getattr(rpc, name), line 124 of jsonrpc.py, finds a name in three       *)
(* places, in this order: the data descriptors of the type (__class__,     *)
(* __dict__, __weakref__), the instance __dict__, and the class: the       *)
(* methods of RPC, its __doc__ and __module__, and what RPC inherits from  *)
(* object.                                                                 *)
(***************************************************************************)
\* the methods of the RPC object and their parameters
Signature(name) ==
  CASE name = "columns" -> <<"catalog", "schema", "table">>
    [] name = "execute" -> <<"sql">>
    [] name = "page" -> <<"max">>
    [] name = "_table_like" -> <<"target_kind">>
    [] name = "__init__" -> <<"connection">>
    [] name = "set_shutdown" -> <<"fn">>
    [] OTHER -> <<>>

Methods == {"tables", "views", "columns", "execute", "metadata", "count", "page",
            "finish", "quit", "_table_like", "__init__", "set_shutdown"}

\* the names of object, in the order of its __dict__
ObjectNames ==
  <<"__new__", "__repr__", "__hash__", "__str__", "__getattribute__",
    "__setattr__", "__delattr__", "__lt__", "__le__", "__eq__", "__ne__", "__gt__", "__ge__",
    "__reduce_ex__", "__reduce__", "__getstate__", "__subclasshook__", "__init_subclass__",
    "__format__", "__sizeof__", "__dir__", "__class__">>

\* the names of class RPC, in the order of its __dict__, and then those of
\* object: what object.__dir__ lists after the names of the instance.  The
\* first __getstate__, __reduce__ or __reduce_ex__ of an RPC object makes
\* copyreg keep the names of the slots of the class, of which there are
\* none, in the class, as __slotnames__.
ClassDir(s) ==
  <<"__module__", "__doc__", "__init__", "set_shutdown", "_table_like", "tables", "views",
    "columns", "execute", "metadata", "count", "page", "finish", "quit", "__dict__",
    "__weakref__">>
    \o (IF s.slotnames THEN <<"__slotnames__">> ELSE <<>>) \o ObjectNames

\* the data descriptors of the type: no attribute of the instance hides them
DataDescriptors == {"__class__", "__dict__", "__weakref__"}

\* the methods RPC inherits from object: the names of object but for its
\* data descriptor, __class__.  The other names of the class that are no
\* methods (__doc__, __module__, __dict__, __weakref__ and, once copyreg
\* has kept it, __slotnames__) are names of RPC, which getattr resolves one
\* by one.
Inherited == {ObjectNames[i] : i \in DOMAIN ObjectNames} \ DataDescriptors

\* the names getattr(rpc, name) resolves
Attributes(s) == Keys(s.rpc) \cup {ClassDir(s)[i] : i \in DOMAIN ClassDir(s)}

\* RPC.__doc__ and RPC.__module__
Doc == "\n    The RPC functions that are exposed on the server\n    "
Module == "odbcnotebook.odbc"

\* what getattr hands out besides the values of the instance: the class of
\* the object, a method bound to it, and nothing (AttributeError)
Class == [t |-> "type", n |-> 0, d |-> 1, s |-> "RPC"]
BoundMethod(name) == [t |-> "method", n |-> 0, d |-> 1, s |-> name]
Missing == [t |-> "missing", n |-> 0, d |-> 1, s |-> ""]

\* getattr(rpc, name)
getattr(s, name) ==
  IF name = "__class__" THEN Class
  ELSE IF name = "__dict__" THEN JObject(s.rpc)
  ELSE IF name = "__weakref__" THEN None
  ELSE IF HasAttr(s, name) THEN Self(s, name)
  ELSE IF name \in Methods \cup Inherited THEN BoundMethod(name)
  ELSE IF name = "__doc__" THEN JStr(Doc)
  ELSE IF name = "__module__" THEN JStr(Module)
  ELSE IF name = "__slotnames__" /\ s.slotnames THEN JList
  ELSE Missing

\* json.dumps has an encoding for the value: None, a bool, a number, a str,
\* and a list or a dict of such values
RECURSIVE Dumpable(_)
Dumpable(v) ==
  \/ v.t \in {"null", "bool", "num", "str"}
  \/ v.t = "list" /\ \A i \in DOMAIN v.items : Dumpable(v.items[i])
  \/ v.t = "dict" /\ \A i \in DOMAIN v.items : Dumpable(v.items[i].value)

\* json.dumps has an encoding for what a call returned
Serializable(result) ==
  /\ result.t # "object"
  /\ result.t = "value" => Dumpable(result.v)

\* the arguments of method(), method(*params) or method(**params) in the order
\* of the parameters, when they fit them
Fits(sig, params) ==
  /\ Len(params.args) = Len(sig)
  /\ params.t = "dict" => {params.keys[i] : i \in DOMAIN params.keys} = {sig[i] : i \in DOMAIN sig}

Bound(sig, params) ==
  IF params.t = "dict"
  THEN [i \in DOMAIN sig |-> params.args[CHOOSE k \in DOMAIN params.keys : params.keys[k] = sig[i]]]
  ELSE params.args

\* the call of a method of RPC with its arguments bound
Invoke(s, name, a) ==
  CASE name = "tables" -> RPC_tables(s)
    [] name = "views" -> RPC_views(s)
    [] name = "columns" -> RPC_columns(s, a[1], a[2], a[3])
    [] name = "execute" -> RPC_execute(s, a[1])
    [] name = "metadata" -> RPC_metadata(s)
    [] name = "count" -> RPC_count(s)
    [] name = "page" -> RPC_page(s, a[1])
    [] name = "finish" -> RPC_finish(s)
    [] name = "quit" -> RPC_quit(s)
    [] name = "_table_like" -> RPC_table_like(s, a[1])
    [] name = "__init__" -> RPC_init(s, a[1])
    [] name = "set_shutdown" -> RPC_set_shutdown(s, a[1])

(***************************************************************************)
(* The methods of object (CPython 3.11), called on the RPC object.  None   *)
(* of them takes a keyword argument.                                       *)
(***************************************************************************)
\* object.__setattr__(rpc, name, value)
object_setattr(s, name, value) ==
  IF name.t # "str" THEN Raise(s, "TypeError", "attribute name must be string")
  ELSE IF name.s = "__class__" THEN Raise(s, "TypeError", "__class__ must be set to a class")
  ELSE IF name.s = "__dict__" THEN
    IF value.t = "dict" THEN Return(WithDict(s, value.items), RNone)
    ELSE Raise(s, "TypeError", "__dict__ must be set to a dictionary")
  ELSE IF name.s = "__weakref__" THEN
    Raise(s, "AttributeError", "attribute '__weakref__' of 'RPC' objects is not writable")
  ELSE Return(Assign(s, name.s, value), RNone)

\* object.__delattr__(rpc, name)
object_delattr(s, name) ==
  IF name.t # "str" THEN Raise(s, "TypeError", "attribute name must be string")
  ELSE IF name.s = "__class__" THEN Raise(s, "TypeError", "cannot delete '__class__' attribute")
  ELSE IF name.s = "__dict__" THEN Return(WithDict(s, <<>>), RNone)
  ELSE IF name.s = "__weakref__" THEN
    Raise(s, "AttributeError", "attribute '__weakref__' of 'RPC' objects is not writable")
  ELSE IF HasAttr(s, name.s) THEN Return(WithDict(s, DelItem(s.rpc, name.s)), RNone)
  ELSE NoAttribute(s, name.s)

\* object.__getattribute__(rpc, name)
object_getattribute(s, name) ==
  IF name.t # "str" THEN Raise(s, "TypeError", "attribute name must be string")
  ELSE IF getattr(s, name.s) = Missing THEN NoAttribute(s, name.s)
  ELSE IF getattr(s, name.s).t \in {"type", "method"} THEN
    Return(s, RObject(getattr(s, name.s).t))
  ELSE Return(s, RValue(getattr(s, name.s)))

\* the comparisons of object with a value that is not the object
NotImplemented == RObject("NotImplementedType")

\* repr(rpc); 0x... stands for the address of the object, which differs from
\* run to run
Repr == "<odbcnotebook.odbc.RPC object at 0x...>"

\* hash(rpc), an int made from the address of the object
RHash == [t |-> "int", v |-> "hash(0x...)"]

\* rpc.__sizeof__(): the header of the object and the pointer to its weak
\* references
SizeOf == 24

\* object.__dir__(rpc): the names of the instance and then those of the
\* class that the instance does not have
Dir(s) ==
  LET OfClassOnly(name) == name \notin Keys(s.rpc)
  IN [i \in DOMAIN s.rpc |-> s.rpc[i].name] \o SelectSeq(ClassDir(s), OfClassOnly)

\* object.__reduce_ex__ and object.__reduce__ get the state of the object
\* from getattr(rpc, '__getstate__'), which an attribute of the instance
\* hides; no value an attribute can hold takes the call.  Getting the state
\* makes copyreg keep __slotnames__ in the class.
Reduced(s) ==
  IF HasAttr(s, "__getstate__") THEN Raise(s, "TypeError", "object is not callable")
  ELSE Return([s EXCEPT !.slotnames = TRUE], RObject("tuple"))

\* the call of a method inherited from object
CallInherited(s, name, params) ==
  LET a == params.args
      Positional(n) == params.keys = <<>> /\ Len(a) = n
      Unfit == Raise(s, "TypeError", "the arguments do not fit the method")
  IN CASE name = "__setattr__" ->
            IF Positional(2) THEN object_setattr(s, a[1], a[2]) ELSE Unfit
       [] name = "__delattr__" ->
            IF Positional(1) THEN object_delattr(s, a[1]) ELSE Unfit
       [] name = "__getattribute__" ->
            IF Positional(1) THEN object_getattribute(s, a[1]) ELSE Unfit
       [] name \in {"__eq__", "__ne__", "__lt__", "__le__", "__gt__", "__ge__"} ->
            IF Positional(1) THEN Return(s, NotImplemented) ELSE Unfit
       [] name = "__subclasshook__" ->
            IF params.keys = <<>> THEN Return(s, NotImplemented) ELSE Unfit
       [] name = "__format__" ->
            IF Positional(1) /\ a[1] = JStr("") THEN Return(s, RStr(Repr)) ELSE Unfit
       [] name = "__reduce_ex__" ->
            \* the protocol is an int that a C int holds, as every int of the
            \* model is
            IF Positional(1) /\ IsNumber(a[1]) /\ a[1].d = 1 THEN Reduced(s) ELSE Unfit
       [] name = "__reduce__" ->
            IF Positional(0) THEN Reduced(s) ELSE Unfit
       [] name = "__getstate__" ->
            IF ~Positional(0) THEN Unfit
            ELSE IF s.rpc = <<>> THEN Return([s EXCEPT !.slotnames = TRUE], RNone)
            ELSE Return([s EXCEPT !.slotnames = TRUE], RValue(JObject(s.rpc)))
       [] name = "__hash__" -> IF Positional(0) THEN Return(s, RHash) ELSE Unfit
       [] name = "__sizeof__" -> IF Positional(0) THEN Return(s, RInt(SizeOf)) ELSE Unfit
       [] name \in {"__repr__", "__str__"} ->
            IF Positional(0) THEN Return(s, RStr(Repr)) ELSE Unfit
       [] name = "__init_subclass__" -> IF Positional(0) THEN Return(s, RNone) ELSE Unfit
       [] name = "__dir__" -> IF Positional(0) THEN Return(s, RList(Dir(s))) ELSE Unfit
       [] name = "__new__" -> Unfit

\* the try block of _process_request around the call of what getattr found:
\* the class (RPC(connection) makes a new object and returns it), a method
\* of the object, or a value of the instance
Call(s, name, params) ==
  IF getattr(s, name) = Class THEN
    IF Fits(Signature("__init__"), params) THEN Return(s, RObject("RPC"))
    ELSE Raise(s, "TypeError", "missing or unexpected argument")
  ELSE IF getattr(s, name).t = "method" THEN
    IF name \in Inherited THEN CallInherited(s, name, params)
    ELSE IF ~Fits(Signature(name), params)
    THEN Raise(s, "TypeError", "missing or unexpected argument")
    ELSE Invoke(s, name, Bound(Signature(name), params))
  ELSE IF Fits(<<>>, params) THEN CallValue(s, getattr(s, name))
  ELSE IF getattr(s, name) = ShutdownFn
  THEN Raise(s, "TypeError", "shutdown() takes 0 positional arguments")
  ELSE Raise(s, "TypeError", "object is not callable")

\* the call reaches the body of a method of class RPC or the closure
Enters(s, name, params) ==
  IF getattr(s, name) = Class THEN Fits(Signature("__init__"), params)
  ELSE IF getattr(s, name).t = "method" THEN
    name \in Methods /\ Fits(Signature(name), params)
  ELSE getattr(s, name) = ShutdownFn /\ Fits(<<>>, params)

\* what processing one request leaves: the session, the response (NoResponse
\* for None), whether an uncaught exception left the handler, whether the
\* body of a method of class RPC or the closure ran, how the request ended
\* ("result", the exception of the call, "invalid request", "method not
\* found" or "crash"), the value the call returned, and the session as it
\* was when the call returned or raised
Processed(s, response, outcome, invoked, returned, at_return) ==
  [s |-> s, response |-> response, crashed |-> outcome = "crash", invoked |-> invoked,
   outcome |-> outcome, returned |-> returned, at_return |-> at_return]

\* _process_request
_process_request(s, request) ==
  IF request.t # "object" THEN
    \* request.get raises AttributeError, which nothing catches
    Processed(s, NoResponse, "crash", FALSE, RNone, s)
  ELSE IF _validate_rpc_request(request) # "" THEN
    Processed(s, _build_rpc_error(None, INVALID_REQUEST, _validate_rpc_request(request), TRUE),
              "invalid request", FALSE, RNone, s)
  ELSE LET id == Get(request.id, None)
           name == request.method.s
       IN IF getattr(s, name) = Missing THEN
            Processed(s, _build_rpc_error(id, METHOD_NOT_FOUND, "object has no attribute", FALSE),
                      "method not found", FALSE, RNone, s)
          ELSE LET out == Call(s, name, request.params)
                   invoked == Enters(s, name, request.params)
               IN IF out.exc = "" THEN
                    Processed(out.s, _build_rpc_result(id, out.result), "result", invoked,
                              out.result, out.s)
                  \* the except clauses: the error is built from the exception,
                  \* which is let go when the clause is left
                  ELSE IF out.exc = "TypeError" THEN
                    Processed(LetGo(out), _build_rpc_error(id, INVALID_PARAMS, out.msg, FALSE),
                              out.exc, invoked, RNone, out.s)
                  ELSE
                    Processed(LetGo(out), _build_rpc_error(id, INTERNAL_ERROR, out.msg, FALSE),
                              out.exc, invoked, RNone, out.s)

(***************************************************************************)
(* do_POST.  A body is what arrives: t is "wrong path" or "wrong content   *)
(* type" for a request the HTTP check refuses, "bad content length" for a  *)
(* Content-Length that is no integer, "short" for fewer bytes than the     *)
(* Content-Length from a client that has closed its side, "not utf-8" for  *)
(* bytes that are no UTF-8 text, "invalid json" for a text json.loads      *)
(* rejects, "too deep" for a text nested deeper than the recursion limit,  *)
(* and else the JSON type of the decoded body; items are the elements of a *)
(* list, or the one request of an object.                                  *)
(***************************************************************************)
Body(t, items) == [t |-> t, items |-> items]

\* what the history of the calls adds to the session, for the properties:
\* the last of execute and finish that returned ("" before any), the
\* statement of that execute, and the rows the page calls of the current
\* query have returned so far
History(last_accepted, sql, fetched) ==
  [last_accepted |-> last_accepted, sql |-> sql, fetched |-> fetched]

Observe(h, request, p) ==
  IF p.outcome # "result" \/ ~p.invoked THEN h
  ELSE CASE request.method.s = "execute" ->
              History("execute", Bound(Signature("execute"), request.params)[1].s, <<>>)
         [] request.method.s = "finish" -> History("finish", "", <<>>)
         [] request.method.s = "page" ->
              History(h.last_accepted, h.sql, h.fetched \o p.returned.v)
         [] OTHER -> h

\* one entry of the record of a POST: the request, the session before and
\* after it, what _process_request returned, the session when the call of
\* the request returned or raised, and the history after it
Entry(request, before, p, h) ==
  [request |-> request, before |-> before, after |-> p.s, response |-> p.response,
   crashed |-> p.crashed, invoked |-> p.invoked, outcome |-> p.outcome,
   returned |-> p.returned, at_return |-> p.at_return, history |-> h]

\* [self._process_request(single) for single in request], up to the first
\* uncaught exception
RECURSIVE ProcessAll(_, _, _, _)
ProcessAll(s, h, items, done) ==
  IF items = <<>> THEN done
  ELSE LET p == _process_request(s, Head(items))
           h2 == Observe(h, Head(items), p)
           done2 == Append(done, Entry(Head(items), s, p, h2))
       IN IF p.crashed THEN done2 ELSE ProcessAll(p.s, h2, Tail(items), done2)

\* [r for r in responses if r is not None]
NotNone(r) == r # NoResponse

Responses(entries) == SelectSeq([i \in DOMAIN entries |-> entries[i].response], NotNone)

\* what the client gets: the status line and the JSON written, if any
\* (t is "none" when no body is written); status 0 is a connection closed
\* with no answer, after an exception left the handler, or one that gets no
\* answer because the handler never ends
Reply(status, t, v) == [status |-> status, t |-> t, v |-> v]

NoReply == Reply(0, "none", <<>>)

\* the session after the entries
Last(s, entries) == IF entries = <<>> THEN s ELSE entries[Len(entries)].after

Crashed(entries) == entries # <<>> /\ entries[Len(entries)].crashed

\* _send_json: json.dumps raises TypeError for a response whose result it
\* has no encoding for, and nothing is written
_send_json(t, responses) ==
  IF \A i \in DOMAIN responses : Serializable(responses[i].result)
  THEN Reply(200, t, responses)
  ELSE NoReply

\* do_POST: the reply
do_POST_reply(body, entries) ==
  CASE body.t = "wrong path" -> Reply(404, "none", <<>>)
    [] body.t = "wrong content type" -> Reply(400, "none", <<>>)
    [] body.t \in {"bad content length", "short", "not utf-8", "too deep"} -> NoReply
    [] body.t = "invalid json" ->
         _send_json("object", <<_build_rpc_error(None, PARSE_ERROR, "Expecting value", TRUE)>>)
    [] body.t = "list" ->
         IF Crashed(entries) THEN NoReply ELSE _send_json("list", Responses(entries))
    [] body.t = "object" ->
         IF Crashed(entries) THEN NoReply
         ELSE IF entries[1].response # NoResponse
              THEN _send_json("object", <<entries[1].response>>)
              ELSE Reply(200, "none", <<>>)
    [] body.t \in {"num", "str", "bool", "null"} ->
         \* _send_json of what _build_rpc_error returned: None
         IF _build_rpc_error(None, INVALID_REQUEST, "", FALSE) = NoResponse
         THEN Reply(200, "null", <<>>)
         ELSE _send_json("object", <<_build_rpc_error(None, INVALID_REQUEST, "", FALSE)>>)

\* do_POST: the requests it hands to _process_request
do_POST_entries(s, h, body) ==
  IF body.t \in {"list", "object"} THEN ProcessAll(s, h, body.items, <<>>) ELSE <<>>

(***************************************************************************)
(* The state: the RPC object (rpc, its instance __dict__), the driver's    *)
(* side of it (conn_open, cursors), the server (threads started by the     *)
(* shutdown closure and not yet run, the flag they set, the serving loop,  *)
(* and whether the loop is held by a handler that never ends), and the     *)
(* last POST: its body, its reply and its entries.  link is the link       *)
(* between the driver and the database server, slotnames whether class RPC *)
(* has a __slotnames__, and set_at the number of requests the handler of   *)
(* the last POST had processed when a thread set the flag.  rebinds is the *)
(* number of requests so far that have rebound an attribute of the object. *)
(***************************************************************************)
VARIABLES rpc, conn_open, cursors, threads, shutdown_request, serving, spinning,
          body, reply, trace, history, link, slotnames, set_at, rebinds

vars == <<rpc, conn_open, cursors, threads, shutdown_request, serving, spinning,
          body, reply, trace, history, link, slotnames, set_at, rebinds>>

\* the session a handler starts with
Session ==
  [rpc |-> rpc, conn_open |-> conn_open, cursors |-> cursors, started |-> 0, link |-> link,
   slotnames |-> slotnames]

\* run_server, up to serve_forever: RPC.__init__ and set_shutdown have run
Init ==
  /\ rpc = <<Member("connection", Odbc), Member("page_context", None),
             Member("shutdown_fn", ShutdownFn)>>
  /\ conn_open = TRUE
  /\ cursors = <<>>
  /\ threads = 0
  /\ shutdown_request = FALSE
  /\ serving = TRUE
  /\ spinning = FALSE
  /\ body = Body("none", <<>>)
  /\ reply = NoReply
  /\ trace = <<>>
  /\ history = History("", "", <<>>)
  /\ link = Stable
  /\ slotnames = FALSE
  /\ set_at = 0
  /\ rebinds = 0

(***************************************************************************)
(* The requests a client sends.                                            *)
(***************************************************************************)
\* page sizes: the integers from -1 to one more than the rows there are, and
\* two numbers that are not integers, 0.5 and 1.5
PageSizes == {JInt(n) : n \in (0 - 1)..(NumRows + 1)} \cup {JNum(1, 2), JNum(3, 2)}

\* method and params of the calls
CallOf(method, params) == [method |-> method, params |-> params]

Calls ==
  {CallOf(m, NoParams) : m \in {"tables", "views", "metadata", "count", "finish", "quit",
                                "page", "shutdown_fn", "page_context", "__init__",
                                "__str__", "__dict__", "bogus"}}
  \cup {CallOf("execute", ListParams(<<JStr(q)>>)) : q \in Statements}
  \cup {CallOf("page", ListParams(<<max>>)) : max \in PageSizes}
  \cup {CallOf("page", DictParams(<<"max">>, <<JInt(2)>>)),
        CallOf("page", ListParams(<<JStr("2")>>)),
        CallOf("metadata", ListParams(<<>>)),
        CallOf("count", ListParams(<<JInt(1)>>)),
        CallOf("execute", DictParams(<<"query">>, <<JStr("select")>>)),
        CallOf("columns", ListParams(<<JStr(""), JStr(""), JStr("Orders")>>)),
        CallOf("columns", DictParams(<<"table", "schema", "catalog">>,
                                     <<JStr("Orders"), JStr("dbo"), JNull>>)),
        CallOf("columns", ListParams(<<JInt(0), JFalse, JStr("Orders")>>)),
        CallOf("columns", ListParams(<<JInt(1), JStr(""), JStr("Orders")>>)),
        CallOf("_table_like", ListParams(<<JStr("View")>>)),
        CallOf("__init__", ListParams(<<JStr("x")>>)),
        CallOf("set_shutdown", ListParams(<<JStr("x")>>)),
        CallOf("__setattr__", ListParams(<<JStr("page_context"), JNull>>)),
        CallOf("__delattr__", ListParams(<<JStr("page_context")>>)),
        CallOf("__class__", ListParams(<<JStr("x")>>)),
        CallOf("connection", NoParams)}

\* well-formed requests: every call with an id, some of them as notifications
ValidRequests ==
  {Request(JStr("2.0"), JInt(1), JStr(c.method), c.params) : c \in Calls}
  \cup {Request(JStr("2.0"), id, JStr(m), NoParams) :
          id \in {Absent, JNull}, m \in {"metadata", "finish", "bogus", "page"}}
  \cup {Request(JStr("2.0"), Absent, JStr("execute"), ListParams(<<JStr(q)>>)) :
          q \in {"select", "update"}}

\* requests that break one rule of the envelope each, two that break the
\* first with the rest well formed, and ids of every JSON type
EnvelopeRequests ==
  {Request(JStr("1.0"), JInt(1), JStr("count"), NoParams),
   Request(Absent, JInt(1), JStr("count"), NoParams),
   Request(JStr("2.0"), JList, JStr("count"), NoParams),
   Request(JStr("2.0"), JInt(1), JInt(5), NoParams),
   Request(JStr("2.0"), JInt(1), Absent, NoParams),
   Request(JStr("2.0"), JInt(1), JStr("count"), NullParams),
   Request(JStr("1.0"), Absent, JStr("execute"), ListParams(<<JStr("select")>>)),
   Request(JStr("1.0"), JStr("a"), JStr("finish"), NoParams)}
  \cup {Request(JStr("2.0"), id, JStr(m), NoParams) :
          id \in {JNull, JStr("a"), JTrue, JNum(3, 2)}, m \in {"count", "finish"}}

\* the requests put in batches
BatchItems ==
  {Request(JStr("2.0"), JInt(1), JStr("execute"), ListParams(<<JStr("select")>>)),
   Request(JStr("2.0"), JInt(2), JStr("page"), ListParams(<<JInt(2)>>)),
   Request(JStr("2.0"), Absent, JStr("finish"), NoParams),
   Request(JStr("2.0"), JInt(1), JStr("count"), NoParams),
   Request(JStr("2.0"), JNull, JStr("bogus"), NoParams),
   Request(JStr("1.0"), JInt(3), JStr("finish"), NoParams),
   Request(JStr("2.0"), JInt(4), JStr("__eq__"), ListParams(<<JInt(1)>>)),
   NotAnObject("num")}

RECURSIVE Batches(_)
Batches(n) ==
  IF n = 0 THEN {<<>>}
  ELSE Batches(n - 1) \cup {Append(b, r) : b \in {x \in Batches(n - 1) : Len(x) = n - 1},
                                           r \in BatchItems}

\* bodies that are one well-formed request
SessionBodies == {Body("object", <<r>>) : r \in ValidRequests}

\* a body cut short of its Content-Length by a client that has closed its
\* side of the connection
ShortBody == Body("short", <<>>)

\* the operations of the Method Registry: the methods of RPC that its
\* docstrings name RPC methods
NineOperations ==
  {"tables", "views", "columns", "execute", "metadata", "count", "page", "finish", "quit"}

\* bodies that are one well-formed request for one of the nine operations
DriverBodies == {b \in SessionBodies : b.items[1].method.s \in NineOperations}

\* the text of a batch of two requests cut short before its end: json.loads
\* rejects it; the items are the requests written in the text
TruncatedBatch ==
  Body("invalid json",
       <<Request(JStr("2.0"), JInt(1), JStr("execute"), ListParams(<<JStr("select")>>)),
         Request(JStr("2.0"), JInt(2), JStr("finish"), NoParams)>>)

\* the batch [execute, page(2), finish], and a batch whose first request
\* fails in the operation and whose second breaks the envelope
ExecutePageFinish ==
  Body("list",
       <<Request(JStr("2.0"), JInt(1), JStr("execute"), ListParams(<<JStr("select")>>)),
         Request(JStr("2.0"), JInt(2), JStr("page"), ListParams(<<JInt(2)>>)),
         Request(JStr("2.0"), JInt(3), JStr("finish"), NoParams)>>)

FailuresThenExecute ==
  Body("list",
       <<Request(JStr("2.0"), JInt(1), JStr("execute"), ListParams(<<JStr("bad")>>)),
         Request(JStr("1.0"), JInt(2), JStr("finish"), NoParams),
         Request(JStr("2.0"), JInt(3), JStr("execute"), ListParams(<<JStr("select")>>))>>)

\* bodies of every shape: refused by the HTTP check, with a Content-Length
\* that is no number or that is never reached, not UTF-8, not JSON, nested
\* too deep, JSON that is neither an object nor a list, one request, and
\* lists of requests
CodecBodies ==
  {Body(t, <<>>) : t \in {"wrong path", "wrong content type", "bad content length",
                          "not utf-8", "invalid json", "too deep",
                          "num", "str", "bool", "null"}}
  \cup {ShortBody, TruncatedBatch, ExecutePageFinish, FailuresThenExecute}
  \cup {Body("object", <<r>>) : r \in {x \in EnvelopeRequests \cup BatchItems : x.t = "object"}}
  \* requests for the state of the object, which make copyreg keep
  \* __slotnames__ in the class, and for what they leave behind
  \cup {Body("object", <<Request(JStr("2.0"), JInt(1), JStr(c.method), c.params)>>) :
          c \in {CallOf("__reduce_ex__", ListParams(<<JInt(2)>>)),
                 CallOf("__getstate__", NoParams),
                 CallOf("__slotnames__", NoParams),
                 CallOf("__dir__", NoParams),
                 CallOf("__setattr__", ListParams(<<JStr("__getstate__"), JInt(5)>>))}}
  \cup {Body("list", b) : b \in Batches(MaxBatch)}

(***************************************************************************)
(* The steps.                                                              *)
(***************************************************************************)
\* one POST, handled by the serving loop, which has found the shutdown flag
\* unset before it takes the request.  The threads that run server.shutdown,
\* those started before and those the handler starts, run beside the
\* handler: any number of them sets the flag while the handler runs, at any
\* point from where there is a thread, and no line of the handler reads the
\* flag.  MaxRebinds bounds the requests of a run that rebind an attribute
\* of the object through the dispatch (__init__, set_shutdown, __setattr__,
\* __delattr__).  A handler that goes on reading a body that has ended never ends
\* (rfile.read returns no byte at the end of the input), and the serving
\* loop with it.  MaxThreads bounds the threads that are started and have
\* not yet run: a POST that would start one more is not taken.  first is the
\* fewest requests the handler has processed when a thread is there to set
\* the flag: none if a thread was started before the POST, and else those
\* up to the first that starts one.
do_POST(b) ==
  /\ serving /\ ~shutdown_request /\ ~spinning
  /\ \E entries \in {do_POST_entries(Session, history, b)} :
       \E s \in {Last(Session, entries)} :
         /\ threads + s.started <= MaxThreads
         /\ \E n \in {Cardinality({i \in DOMAIN entries :
                                     /\ entries[i].after.rpc # entries[i].before.rpc
                                     /\ entries[i].request.method.s \notin {"execute", "finish"}})} :
              /\ rebinds + n <= MaxRebinds
              /\ rebinds' = rebinds + n
         /\ rpc' = s.rpc
         /\ conn_open' = s.conn_open
         /\ cursors' = s.cursors
         /\ link' = s.link
         /\ slotnames' = s.slotnames
         /\ \E ran \in 0..(threads + s.started) :
              /\ threads' = threads + s.started - ran
              /\ shutdown_request' = (ran > 0)
              /\ IF ran = 0 THEN set_at' = 0
                 ELSE \E first \in {i \in 0..Len(entries) :
                                      /\ (i = 0) = (threads > 0)
                                      /\ i > 0 => /\ entries[i].after.started > 0
                                                  /\ \A j \in 1..(i - 1) :
                                                       entries[j].after.started = 0} :
                        \E at \in first..Len(entries) : set_at' = at
         /\ spinning' = (b.t = "short")
         /\ body' = b
         /\ reply' = do_POST_reply(b, entries)
         /\ trace' = entries
         /\ history' = IF entries = <<>> THEN history ELSE entries[Len(entries)].history
  /\ UNCHANGED serving

\* a thread started by the shutdown closure runs server.shutdown, between
\* two requests or while a handler spins
ServerShutdown ==
  /\ threads > 0
  /\ threads' = threads - 1
  /\ shutdown_request' = TRUE
  /\ set_at' = IF shutdown_request THEN set_at ELSE Len(trace)
  /\ UNCHANGED <<rpc, conn_open, cursors, serving, spinning, body, reply, trace, history,
                 link, slotnames, rebinds>>

\* serve_forever sees the flag, leaves its loop and unsets the flag on its
\* way out
ServeForeverReturns ==
  /\ serving /\ shutdown_request /\ ~spinning
  /\ serving' = FALSE
  /\ shutdown_request' = FALSE
  /\ UNCHANGED <<rpc, conn_open, cursors, threads, spinning, body, reply, trace, history,
                 link, slotnames, set_at, rebinds>>

\* the server with clients that send one well-formed request per POST, or
\* give up in the middle of a body
Next ==
  \/ \E b \in SessionBodies \cup {ShortBody} : do_POST(b)
  \/ ServerShutdown
  \/ ServeForeverReturns

Spec == Init /\ [][Next]_vars

\* the scheduler runs a started thread, and the serving loop goes on to its
\* next test of the shutdown flag once the handler has returned
SpecFair == Spec /\ WF_vars(ServerShutdown) /\ WF_vars(ServeForeverReturns)

\* the link to the database server goes down, now or between two of the
\* driver calls that follow
ConnectivityLost ==
  /\ link = Stable
  /\ \E calls \in 0..NumRows : link' = calls
  /\ UNCHANGED <<rpc, conn_open, cursors, threads, shutdown_request, serving, spinning,
                 body, reply, trace, history, slotnames, set_at, rebinds>>

\* the link to the database server is back
ConnectivityRestored ==
  /\ link # Stable
  /\ link' = Stable
  /\ UNCHANGED <<rpc, conn_open, cursors, threads, shutdown_request, serving, spinning,
                 body, reply, trace, history, slotnames, set_at, rebinds>>

\* the driver lets go of the description of a cursor whose rows have all
\* been fetched: cursor.description is the driver's, and holds for the
\* result set the cursor is on
DescriptionReleased ==
  /\ \E c \in DOMAIN cursors :
       /\ cursors[c].description # None
       /\ cursors[c].pos >= Len(Rows(cursors[c].sql))
       /\ cursors' = [cursors EXCEPT ![c].description = None]
  /\ UNCHANGED <<rpc, conn_open, threads, shutdown_request, serving, spinning,
                 body, reply, trace, history, link, slotnames, set_at, rebinds>>

\* the server with a driver whose link to the database comes and goes
NextDriver ==
  \/ \E b \in DriverBodies : do_POST(b)
  \/ ServerShutdown
  \/ ServeForeverReturns
  \/ ConnectivityLost
  \/ ConnectivityRestored
  \/ DescriptionReleased

SpecDriver == Init /\ [][NextDriver]_vars

\* the batches [quit, tables] and [quit, quit]
QuitThenTables ==
  Body("list", <<Request(JStr("2.0"), JInt(1), JStr("quit"), NoParams),
                 Request(JStr("2.0"), JInt(2), JStr("tables"), NoParams)>>)

QuitTwice ==
  Body("list", <<Request(JStr("2.0"), JInt(1), JStr("quit"), NoParams),
                 Request(JStr("2.0"), JInt(2), JStr("quit"), NoParams)>>)

\* one well-formed request for one of the nine operations, or one of the
\* two batches that go on after a quit
QuitBodies == DriverBodies \cup {QuitThenTables, QuitTwice}

\* the server with clients that go on sending after a quit
NextQuit ==
  \/ \E b \in QuitBodies : do_POST(b)
  \/ ServerShutdown
  \/ ServeForeverReturns

SpecQuit == Init /\ [][NextQuit]_vars

\* the server with clients that send bodies of every shape
NextCodec == \E b \in CodecBodies : do_POST(b)

SpecCodec == Init /\ [][NextCodec]_vars

(***************************************************************************)
(* Properties.                                                             *)
(***************************************************************************)
\* the session holds a Paging Context: the state ActiveQuery
Active(s) == HasAttr(s, "page_context") /\ Self(s, "page_context").t = "PagingContext"

\* the page_context of the session is None: the state Idle
Idle(s) == HasAttr(s, "page_context") /\ Self(s, "page_context") = None

\* the position of the cursor of the Paging Context
Position(s) == s.cursors[Self(s, "page_context").cursor].pos

\* the entry is a request that passed the envelope check and names method m
Names(e, m) ==
  /\ e.request.t = "object"
  /\ e.outcome \notin {"invalid request", "crash"}
  /\ e.request.method.s = m

\* the entry is a call of method m whose arguments fit its parameters
Calls_(e, m) == Names(e, m) /\ e.invoked

\* the argument of a call of a method of one parameter
Arg(e) == Bound(Signature(e.request.method.s), e.request.params)[1]

\* the response of the entry is the error envelope of this code, when the
\* request has an id, and no response when it has none
Answers(e, code) ==
  IF Get(e.request.id, None) = None THEN e.response = NoResponse
  ELSE /\ e.response.kind = "error"
       /\ e.response.code = code
       /\ e.response.id = e.request.id

\* C1: the session holds a Paging Context if and only if the last of execute
\* and finish that was accepted is an execute; no other call changes whether
\* one is held.
C1_ActiveIffLastAcceptedIsExecute ==
  Active(Session) <=> (history.last_accepted = "execute")

\* C2: execute while a query is active fails, opens no cursor and leaves the
\* Paging Context as it was (cursor, position, cached descriptors), and
\* metadata, count and page on it then succeed.
C2_ExecuteWhileActiveRejected ==
  \A i \in DOMAIN trace :
    LET e == trace[i] IN
    (Names(e, "execute") /\ Active(e.before)) =>
      /\ e.outcome # "result"
      /\ e.after = e.before
      /\ e.invoked => (e.outcome = "ValueError" /\ Answers(e, INTERNAL_ERROR))
      /\ RPC_metadata(e.after).exc = ""
      /\ RPC_count(e.after).exc = ""
      /\ RPC_page(e.after, JInt(1)).exc = ""

C2_Witness ==
  \E i \in DOMAIN trace :
    /\ Calls_(trace[i], "execute") /\ Active(trace[i].before)
    /\ Position(trace[i].before) > 0
    /\ trace[i].response.kind = "error"

\* the rows of a statement as page returns them
NamedRows(sql) ==
  LET d == Description(sql)
  IN [i \in DOMAIN Rows(sql) |-> NamedRow([j \in DOMAIN d |-> d[j].name], Rows(sql)[i])]

\* the entry is a page call that returned
Paged(e) == Calls_(e, "page") /\ e.outcome = "result"

\* the rows left on the cursor of the Paging Context
RowsLeft(s) ==
  Len(Rows(s.cursors[Self(s, "page_context").cursor].sql)) - Position(s)

\* C3: page(n) with n >= 1 returns at most n rows, returns no row exactly
\* when the result set is exhausted, and the pages returned up to the first
\* empty one are the result set, in order, each row once.
C3_PagesPartitionResultSet ==
  \A i \in DOMAIN trace :
    LET e == trace[i] IN
    (Paged(e) /\ Arg(e).n >= Arg(e).d) =>
      /\ Len(e.returned.v) * Arg(e).d <= Arg(e).n
      /\ (e.returned.v = <<>>) <=> (RowsLeft(e.before) = 0)
      /\ (e.returned.v = <<>>) => (e.history.fetched = NamedRows(e.history.sql))

\* C4: page(max) with max < 1 fails with the page-size error, returns no row
\* and leaves the cursor where it was.
C4_PageSizeBelowOneRejected ==
  \A i \in DOMAIN trace :
    LET e == trace[i] IN
    (Calls_(e, "page") /\ Active(e.before) /\ IsNumber(Arg(e)) /\ Arg(e).n < Arg(e).d) =>
      /\ e.outcome = "ValueError"
      /\ Answers(e, INTERNAL_ERROR)
      /\ e.after = e.before

\* C5: in the state Idle, metadata, count, page and finish fail with the
\* 'no active query' error and leave the session as it was, Idle; an accepted
\* finish leaves the session Idle with its cursor closed, so that a page or
\* a second finish after it fails and touches nothing.
C5_IdleCallsRejected ==
  \A i \in DOMAIN trace :
    LET e == trace[i] IN
    /\ ((\E m \in {"metadata", "count", "page", "finish"} : Calls_(e, m))
        /\ Idle(e.before)) =>
         /\ e.outcome = "ValueError"
         /\ Answers(e, INTERNAL_ERROR)
         /\ e.response # NoResponse =>
              e.response.data \in {"Must have active query before calling metadata()",
                                   "Must have active query before calling page()",
                                   "Must have active query before calling finish()"}
         /\ e.after = e.before
    /\ (Calls_(e, "finish") /\ e.outcome = "result") =>
         /\ Idle(e.after)
         /\ e.after.cursors = <<>>
         /\ RPC_page(e.after, JInt(1)) =
              Raise(e.after, "ValueError", "Must have active query before calling page()")
         /\ RPC_finish(e.after) =
              Raise(e.after, "ValueError", "Must have active query before calling finish()")

C5_Witness ==
  \E i \in DOMAIN trace :
    /\ Calls_(trace[i], "page")
    /\ history.last_accepted = "finish"
    /\ Idle(trace[i].before)
    /\ trace[i].response.kind = "error"
    /\ trace[i].before.cursors = <<>>

\* C6: between an accepted execute and the next accepted finish, every
\* metadata() returns the descriptors of the statement as the driver
\* described it when execute ran, in the driver's column order, whatever
\* the cursor says of its description by the time of the call.
C6_MetadataStable ==
  \A i \in DOMAIN trace :
    LET e == trace[i]
        d == Description(e.history.sql)
    IN (Calls_(e, "metadata") /\ e.outcome = "result") =>
         /\ e.history.last_accepted = "execute"
         /\ e.returned.v = [j \in DOMAIN d |->
                              [column |-> d[j].name, datatype |-> TypeName(d[j].type_code)]]

C6_Witness ==
  \E i \in DOMAIN trace :
    /\ Calls_(trace[i], "metadata") /\ trace[i].outcome = "result"
    /\ Len(trace[i].returned.v) = 2
    /\ Len(history.fetched) = NumRows
    /\ trace[i].before.cursors[Self(trace[i].before, "page_context").cursor].description = None

\* a request with an id that is a string or a number
NonNotification(r) == r.t = "object" /\ r.id.t \in {"str", "num"}

\* the request of the entry passed the envelope check and has no id, or null
Notification(e) ==
  e.outcome \notin {"invalid request", "crash"} /\ Get(e.request.id, None) = None

\* the place in the reply of the response of entry i
Rank(i) == Cardinality({j \in 1..i : trace[j].response # NoResponse})

\* the reply carries the response of entry i at its place
Replied(i) ==
  /\ reply.status = 200
  /\ reply.t = body.t
  /\ i \in DOMAIN trace
  /\ trace[i].response.kind \in {"result", "error"}
  /\ Rank(i) \in DOMAIN reply.v
  /\ reply.v[Rank(i)] = trace[i].response

\* C7: every request whose id is a string or a number gets exactly one
\* response envelope, and the envelopes of a batch are in the order of their
\* requests, with only the suppressed ones left out.
C7_EveryRequestAnswered ==
  body.t \in {"list", "object"} =>
    \A i \in DOMAIN body.items :
      NonNotification(body.items[i]) =>
        /\ Replied(i)
        /\ Len(reply.v) = Cardinality({j \in DOMAIN trace : trace[j].response # NoResponse})

\* the batch [count with id 1, 'bogus' with id null]
CountThenBogus ==
  Body("list", <<Request(JStr("2.0"), JInt(1), JStr("count"), NoParams),
                 Request(JStr("2.0"), JNull, JStr("bogus"), NoParams)>>)

\* json.dumps has an encoding for every response of the entries
Sendable(entries) ==
  \A i \in DOMAIN entries : Serializable(entries[i].response.result)

\* C8: a request that passes the envelope check and has no id, or a null one,
\* gets no response entry, whatever becomes of the call: the answer to a
\* batch, when one is written, has one entry for each of the other requests;
\* the batch [count with id 1, 'bogus' with id null] with no active query is
\* answered by one entry, the Internal Error of count.
C8_NotificationsNeverAnswered ==
  /\ \A i \in DOMAIN trace : Notification(trace[i]) => trace[i].response = NoResponse
  /\ (body.t = "object" /\ Notification(trace[1])) => reply = Reply(200, "none", <<>>)
  /\ (body.t = "list" /\ ~Crashed(trace) /\ Sendable(trace)) =>
       /\ reply.status = 200 /\ reply.t = "list"
       /\ Len(reply.v) = Cardinality({j \in DOMAIN trace : ~Notification(trace[j])})
  /\ (body = CountThenBogus /\ ~Active(trace[1].before)) =>
       /\ Len(reply.v) = 1
       /\ reply.v[1].kind = "error"
       /\ reply.v[1].code = INTERNAL_ERROR
       /\ reply.v[1].id = JInt(1)

C8_Witness ==
  /\ body = CountThenBogus
  /\ ~Active(trace[1].before)
  /\ trace[2].outcome = "method not found"
  /\ Len(reply.v) = 1

\* a request object the envelope rules refuse, or a value that is no object
BreaksEnvelope(r) ==
  \/ r.t # "object"
  \/ Get(r.jsonrpc, JNull) # JStr("2.0")
  \/ Get(r.id, JNull).t \notin {"null", "str", "num"}
  \/ Get(r.method, JNull).t # "str"
  \/ r.params.t \notin {"absent", "list", "dict"}

\* C9: every request that breaks a rule of the envelope, alone or in a batch,
\* is answered by an Invalid Request envelope with id null, and no operation
\* is invoked for it.
C9_InvalidEnvelopeAnswered ==
  body.t \in {"list", "object"} =>
    \A i \in DOMAIN body.items :
      BreaksEnvelope(body.items[i]) =>
        /\ Replied(i)
        /\ trace[i].response.kind = "error"
        /\ trace[i].response.code = INVALID_REQUEST
        /\ trace[i].response.id = JNull
        /\ ~trace[i].invoked
        /\ trace[i].after = trace[i].before

\* C10: a body that decodes to a value that is neither an object nor a
\* non-empty array is answered by an Invalid Request envelope, and no
\* operation is invoked.
C10_TopLevelInvalidRequest ==
  (body.t \in {"num", "str", "bool", "null"} \/ (body.t = "list" /\ body.items = <<>>)) =>
    /\ reply.status = 200
    /\ reply.t = "object"
    /\ Len(reply.v) = 1
    /\ reply.v[1].kind = "error"
    /\ reply.v[1].code = INVALID_REQUEST
    /\ trace = <<>>

\* bodies that do not decode as JSON: bytes that are no UTF-8 text, a text
\* that is no JSON, and a text nested too deep for the decoder
Undecodable == {"not utf-8", "invalid json", "too deep"}

\* C11: a body that does not decode as JSON is answered by exactly one Parse
\* Error envelope with id null, whatever requests its text holds; no request
\* of it is processed and the session is as it was before the POST.
C11_ParseErrorOnce ==
  [][body'.t \in Undecodable =>
       /\ reply'.status = 200
       /\ reply'.t = "object"
       /\ Len(reply'.v) = 1
       /\ reply'.v[1].kind = "error"
       /\ reply'.v[1].code = PARSE_ERROR
       /\ reply'.v[1].id = JNull
       /\ trace' = <<>>
       /\ Session' = Session
       /\ history' = history]_vars

\* C12: a request that passes the envelope check and names anything but one
\* of the nine operations is answered by Method Not Found, runs nothing and
\* leaves the session as it was.
C12_OnlyNineOperationsResolve ==
  \A i \in DOMAIN trace :
    LET e == trace[i] IN
    (/\ e.request.t = "object"
     /\ e.outcome \notin {"invalid request", "crash"}
     /\ e.request.method.s \notin NineOperations) =>
      /\ e.outcome = "method not found"
      /\ Answers(e, METHOD_NOT_FOUND)
      /\ ~e.invoked
      /\ e.after = e.before

\* the arguments of a call of one of the nine operations have the types the
\* operation takes: a string for execute, a number for page, strings or
\* null for columns (or, for the catalog and the schema, any value `or None`
\* makes None)
TypesFit(e) ==
  LET m == e.request.method.s
      a == Bound(Signature(m), e.request.params)
  IN CASE m = "execute" -> a[1].t = "str"
       [] m = "page" -> IsNumber(a[1])
       [] m = "columns" -> /\ \A i \in 1..2 : Falsy(a[i]) \/ a[i].t = "str"
                           /\ a[3].t \in {"str", "null"}
       [] OTHER -> TRUE

\* C13: for a call of one of the nine operations, Invalid Params answers
\* only arguments that do not fit the signature in number, name or type;
\* every failure of an operation that ran with fitting arguments is
\* answered by Internal Error.
C13_InvalidParamsOnlyForArguments ==
  \A i \in DOMAIN trace :
    LET e == trace[i] IN
    (/\ e.request.t = "object"
     /\ e.outcome \notin {"invalid request", "crash", "method not found", "result"}
     /\ e.request.method.s \in NineOperations) =>
      /\ (e.invoked /\ TypesFit(e)) => Answers(e, INTERNAL_ERROR)
      /\ e.outcome = "TypeError" => Answers(e, INVALID_PARAMS)

\* C14: a batch whose requests were all processed and whose responses are all
\* suppressed is answered with status 200 and no body; a batch is answered
\* with a body only when a response entry remains.
C14_AllSuppressedBatchHasNoBody ==
  (body.t = "list" /\ body.items # <<>> /\ ~Crashed(trace)) =>
    /\ reply.status = 200
    /\ (\A i \in DOMAIN trace : trace[i].response = NoResponse) => reply.t = "none"
    /\ reply.t # "none" => (reply.t = "list" /\ reply.v # <<>>)

\* C15: quit while a query is active is rejected, closes nothing, starts no
\* shutdown and leaves the Paging Context usable; quit with no active query
\* returns true with the connection closed before the shutdown callback ran.
C15_QuitOnlyWhenIdle ==
  \A i \in DOMAIN trace :
    LET e == trace[i] IN
    Calls_(e, "quit") =>
      IF Active(e.before)
      THEN /\ e.outcome = "ValueError"
           /\ Answers(e, INTERNAL_ERROR)
           /\ e.after = e.before
           /\ RPC_page(e.after, JInt(1)).exc = ""
           /\ RPC_finish(e.after).exc = ""
      ELSE /\ e.outcome = "result"
           /\ e.returned = RTrue
           /\ ~e.after.conn_open
           /\ e.after.started = e.before.started + 1
           /\ e.after = [e.before EXCEPT !.conn_open = FALSE, !.started = @ + 1]

\* C16: the shutdown closure runs (a thread that stops the server is
\* started) only in a quit that returns, called with no active query.
C16_OnlyQuitStopsServer ==
  \A i \in DOMAIN trace :
    LET e == trace[i] IN
    e.after.started # e.before.started =>
      /\ Names(e, "quit")
      /\ e.outcome = "result"
      /\ ~Active(e.before)

\* the last POST held a quit that returned
QuitAccepted ==
  \E i \in DOMAIN trace : Calls_(trace[i], "quit") /\ trace[i].outcome = "result"

\* C17: the handler that runs quit starts the thread that stops the server
\* and returns its answer without waiting for the serving loop, which is
\* still serving when the answer is written; the thread sets the shutdown
\* flag, and the serving loop stops.
C17_QuitStopsServerFromThread ==
  /\ [][QuitAccepted' /\ trace' # trace =>
          /\ trace'[1].after.started = 1
          /\ serving'
          /\ reply'.status = 200
          /\ reply'.t = "object"
          /\ reply'.v[1].kind = "result"]_vars
  /\ QuitAccepted ~> ~serving

\* the entry is a call of tables, views or columns with fitting arguments
CatalogCall(e) == \E m \in {"tables", "views", "columns"} : Calls_(e, m)

\* the session with the link as it is in another
OnLinkOf(s, other) == [s EXCEPT !.link = other.link]

DriverFailure(e) ==
  /\ e.invoked
  /\ TypesFit(e)
  /\ CanOpenCursor(e.before)
  /\ \/ e.outcome = "pyodbc.Error"
     \/ Names(e, "execute") /\ e.outcome = "TypeError"

\* C19: a call that fails in the driver is made once and leaves the state
\* of the session as it was: after a failed execute with no active query
\* there is no Paging Context, the session is the one before the call, and
\* an execute is accepted once the driver works; after a failed page, count
\* or finish with an active query the session has the Paging Context and
\* the cursor it had, and nothing of it has changed but, after a page, the
\* position of the cursor, past the rows fetched before the failure.
C19_DriverFailureKeepsState ==
  \A i \in DOMAIN trace :
    LET e == trace[i] IN
    /\ (Names(e, "execute") /\ DriverFailure(e) /\ ~Active(e.before)) =>
         /\ ~Active(e.after)
         /\ OnLinkOf(e.after, e.before) = e.before
         /\ RPC_execute([e.after EXCEPT !.link = Stable], JStr("select")).exc = ""
    /\ ((\E m \in {"page", "count", "finish"} : Names(e, m))
        /\ DriverFailure(e) /\ Active(e.before)) =>
         /\ Active(e.after)
         /\ Self(e.after, "page_context") = Self(e.before, "page_context")
         /\ Position(e.after) >= Position(e.before)
         /\ ~Names(e, "page") => Position(e.after) = Position(e.before)
         /\ [OnLinkOf(e.after, e.before)
               EXCEPT !.cursors[Self(e.before, "page_context").cursor].pos = Position(e.before)]
              = e.before

C19_Witness ==
  \E i \in DOMAIN trace :
    /\ Calls_(trace[i], "page")
    /\ trace[i].outcome = "pyodbc.Error"
    /\ Active(trace[i].before)
    /\ Position(trace[i].after) = Position(trace[i].before) + 1
    /\ Active(Session)

\* C20: the requests of a batch are run in the order of the array, each on
\* the session the one before it left, and every one of them is run and, if
\* it has an id or breaks the envelope, answered, whatever became of the
\* ones before it; [execute, page, finish] on an Idle session returns three
\* results.
C20_BatchInOrderFailuresIndependent ==
  (body.t = "list" /\ body.items # <<>>) =>
    /\ Len(trace) = Len(body.items)
    /\ \A i \in DOMAIN trace :
         /\ trace[i].request = body.items[i]
         /\ i > 1 => trace[i].before = trace[i - 1].after
         /\ trace[i].response # NoResponse => Replied(i)
         /\ (NonNotification(body.items[i]) \/ BreaksEnvelope(body.items[i])) => Replied(i)
    /\ (body = ExecutePageFinish /\ ~Active(trace[1].before)) =>
         (\A i \in DOMAIN trace : trace[i].outcome = "result")
    /\ (body = FailuresThenExecute /\ ~Active(trace[1].before)) =>
         (trace[3].outcome = "result" /\ Active(trace[3].after))

\* every open cursor of the session is the cursor of its Paging Context
NoStrayCursor(s) ==
  \A c \in DOMAIN s.cursors : Active(s) /\ Self(s, "page_context").cursor = c

\* C21: when a call has returned or raised, every open cursor of the
\* connection is the cursor of the current Paging Context, and an execute
\* that failed has left no cursor open.
C21_NoCursorLeaked ==
  /\ NoStrayCursor(Session)
  /\ \A i \in DOMAIN trace :
       LET e == trace[i] IN
       /\ NoStrayCursor(e.at_return)
       /\ NoStrayCursor(e.after)
       /\ (Names(e, "execute") /\ e.outcome # "result") =>
            e.at_return.cursors = e.before.cursors

\* the call of the entry reaches a call on self.connection: cursor() in
\* tables, views, columns and execute, close() in quit
UsesConnection(e) ==
  /\ e.invoked
  /\ \/ \E m \in {"tables", "views", "columns"} : Names(e, m)
     \/ (Names(e, "execute") \/ Names(e, "quit")) /\ ~Active(e.before)

\* C22: once a quit has closed the connection no call reaches the
\* connection again, in the same batch or in a later POST; the connection
\* is closed only once, by a quit that returns, and the shutdown closure
\* is run only by the quit that closes it.
C22_QuitIsTerminal ==
  \A i \in DOMAIN trace :
    LET e == trace[i] IN
    /\ UsesConnection(e) => e.before.conn_open
    /\ e.after.conn_open # e.before.conn_open =>
         (e.before.conn_open /\ Names(e, "quit") /\ e.outcome = "result")
    /\ e.after.started # e.before.started =>
         (e.before.conn_open /\ ~e.after.conn_open /\ e.after.started = e.before.started + 1)

====
